---- MODULE Spec2Model ----
(***************************************************************************)
(* Model of the vocabulary part of the linguamentor API:                   *)
(*   - POST /updateWordStatus : the per-word mastery state machine, run    *)
(*     inside a Firestore transaction on users/<uid>/user_words_<lang>/<w> *)
(*   - POST /getDailyWords    : the daily selection (topic and untargeted) *)
(* Time is counted in minutes.  Arrays whose order is produced by          *)
(* shuffle() are modelled as bags of entries: shuffle() yields an          *)
(* arbitrary permutation, so shuffle(a).slice(0, n) is any sub-bag of a    *)
(* with min(n, length) entries.                                            *)
(***************************************************************************)
EXTENDS Integers, Sequences, FiniteSets, Bags, TLC

VARIABLES vocabulary, store, version, now, req, committed, sel, probe

vars == <<vocabulary, store, version, now, req, committed, sel, probe>>

(***************************************************************************)
(* Bounds of the model.                                                    *)
(***************************************************************************)
\* largest counter value of a record handed to the mastery transition
MaxCount == 4

\* number of /updateWordStatus requests in one behaviour; all of them can
\* be in flight together
MaxRequests == 3

\* number of words of the catalogs the selections are drawn from
CatalogSize == 9

\* number of answers submitted one after the other in one session
MaxAnswers == 4

\* attempts runTransaction makes before it gives up on a contended document
MaxAttempts == 2

(***************************************************************************)
(* Values.                                                                 *)
(***************************************************************************)
\* the document does not exist (doc.exists = false)
NoDoc == [word |-> "", status |-> "none"]

\* a field that is absent (last_seen of a synthesized entry)
NoTime == -1

Statuses == {"new", "learning", "weak", "known"}

\* the catalog of the scenario of the specification, loaded once at startup
SmallCatalog ==
    << [word |-> "ubiquitous", level |-> "C1", tags |-> {"tech"}],
       [word |-> "hello", level |-> "A1", tags |-> {"greetings"}] >>

\* the (userId, language, word) parameters of the /updateWordStatus requests:
\* one catalog word of one user, the same with another user, another
\* language or a word that is not in the catalog, and requests with a
\* missing ("", falsy) userId, word or language
RequestParams ==
    { <<"u1", "en", "hello">>, <<"u2", "en", "hello">>, <<"u1", "ru", "hello">>,
      <<"u1", "en", "zzz">>, <<"u1", "", "hello">>, <<"", "en", "hello">>,
      <<"u1", "en", "">> }

(***************************************************************************)
(* The mastery state machine: the body of the transaction callback of      *)
(* /updateWordStatus, from the record it starts with to the record it      *)
(* hands to t.set.                                                         *)
(***************************************************************************)
\* the record the callback starts from when the document does not exist
FreshData(word) ==
    [word |-> word, correct_streak |-> 0, wrong_count |-> 0, status |-> "new",
     last_seen |-> NoTime, level |-> "", tags |-> {}]

\* mutant: the streak must exceed 3 to reach known
CorrectBranchLate(data) ==
    LET streak == data.correct_streak + 1
    IN  [data EXCEPT !.correct_streak = streak,
                     !.status = IF streak > 3 THEN "known"
                                ELSE IF data.status = "new" \/ data.status = "weak"
                                     THEN "learning"
                                     ELSE data.status]

\* mutant: a new word stays new on a correct answer
CorrectBranchKeepNew(data) ==
    LET streak == data.correct_streak + 1
    IN  [data EXCEPT !.correct_streak = streak,
                     !.status = IF streak >= 3 THEN "known"
                                ELSE IF data.status = "weak"
                                     THEN "learning"
                                     ELSE data.status]

\* the isCorrect branch
CorrectBranch(data) ==
    LET streak == data.correct_streak + 1
    IN  [data EXCEPT !.correct_streak = streak,
                     !.status = IF streak >= 3 THEN "known"
                                ELSE IF data.status = "new" \/ data.status = "weak"
                                     THEN "learning"
                                     ELSE data.status]

\* mutant: a word turns weak only from its second wrong answer
IncorrectBranchThreshold(data) ==
    LET wrong == data.wrong_count + 1
    IN  [data EXCEPT !.correct_streak = 0,
                     !.wrong_count = wrong,
                     !.status = IF wrong >= 2 THEN "weak" ELSE "learning"]

\* mutant: a wrong answer leaves the streak as it was
IncorrectBranchKeepStreak(data) ==
    LET wrong == data.wrong_count + 1
    IN  [data EXCEPT !.wrong_count = wrong,
                     !.status = IF wrong >= 1 THEN "weak" ELSE "learning"]

\* the else branch (isCorrect falsy)
IncorrectBranch(data) ==
    LET wrong == data.wrong_count + 1
    IN  [data EXCEPT !.correct_streak = 0,
                     !.wrong_count = wrong,
                     !.status = IF wrong >= 1 THEN "weak" ELSE "learning"]

\* the whole transition, with the server timestamp ts stamped on last_seen
ApplyAnswer(data, isCorrect, ts) ==
    LET next == IF isCorrect THEN CorrectBranch(data) ELSE IncorrectBranch(data)
    IN  [next EXCEPT !.last_seen = ts]

(***************************************************************************)
(* POST /updateWordStatus.  Request number s runs in slot s; its transaction *)
(* reads the document, computes the new record and commits it.  Firestore  *)
(* commits a transaction only if the document it read has not been written *)
(* since (it re-runs the callback otherwise, MaxAttempts times in all) and *)
(* may fail altogether; either way an aborted attempt writes nothing.      *)
(***************************************************************************)
Slots == 1..MaxRequests

IdleSlot == [pc |-> "idle"]

\* const lang = language || 'en'
Lang(language) == IF language = "" THEN "en" ELSE language

\* the documents users/<userId>/user_words_<lang>/<word> of valid requests
DocRefs ==
    { <<p[1], Lang(p[2]), p[3]>> : p \in {q \in RequestParams : q[1] # "" /\ q[3] # ""} }

\* vocabulary.find(v => v.word === word): the first match, NoDoc if none
VocabItem(word) ==
    LET hits == {i \in DOMAIN vocabulary : vocabulary[i].word = word}
    IN  IF hits = {} THEN NoDoc
        ELSE vocabulary[CHOOSE i \in hits : \A j \in hits : i <= j]

\* data = { ...vocabItem, ...data } for a document that did not exist
MergeVocab(data) ==
    LET item == VocabItem(data.word)
    IN  IF item = NoDoc THEN data
        ELSE [data EXCEPT !.level = item.level, !.tags = item.tags]

\* what the callback hands to t.set, from the snapshot doc it read
CallbackData(doc, word, isCorrect, ts) ==
    LET data == IF doc = NoDoc THEN FreshData(word) ELSE doc
        next == ApplyAnswer(data, isCorrect, ts)
    IN  IF doc = NoDoc THEN MergeVocab(next) ELSE next

\* mutant: the commit does not validate the read (last committed wins)
CanCommitAlways(r) == TRUE

\* t.get(docRef) validated at commit: the document is as it was read
CanCommit(r) == version[r.docRef] = r.readVersion

\* res.json({ success: true })
SuccessResponse == [code |-> 200, success |-> TRUE]

\* mutant: the catch branch swallows the failure
CatchResponseOk == [code |-> 200, success |-> TRUE]

\* the catch branch: res.status(500).json({ error })
CatchResponse == [code |-> 500, success |-> FALSE]

\* the parameter check: res.status(400).json({ error })
MissingResponse == [code |-> 400, success |-> FALSE]

\* the handler's answer (the parameter check failed, or runTransaction has settled)
Settled(res) ==
    [pc |-> "done", res |-> res]

\* the handler up to runTransaction
Submit(s, userId, word, isCorrect, language) ==
    /\ req[s].pc = "idle"
    /\ s = probe.started + 1
    /\ probe' = [probe EXCEPT !.started = s]
    /\ req' = [req EXCEPT ![s] =
            IF userId = "" \/ word = ""
            THEN Settled(MissingResponse)
            ELSE [pc |-> "get", docRef |-> <<userId, Lang(language), word>>,
                  isCorrect |-> isCorrect, attempts |-> 1]]
    /\ UNCHANGED <<vocabulary, store, version, now, committed, sel>>

\* const doc = await t.get(docRef)
TxnGet(s) ==
    /\ req[s].pc = "get"
    /\ req' = [req EXCEPT ![s] =
            [pc |-> "set", docRef |-> req[s].docRef,
             isCorrect |-> req[s].isCorrect, attempts |-> req[s].attempts,
             doc |-> store[req[s].docRef], readVersion |-> version[req[s].docRef]]]
    /\ UNCHANGED <<vocabulary, store, version, now, committed, sel, probe>>

\* mutant: the document path leaves out the user
StoreAfterSetAnyUser(docRef, data) ==
    [d \in DOMAIN store |->
        IF d[2] = docRef[2] /\ d[3] = docRef[3] THEN data ELSE store[d]]

\* the collection after t.set(docRef, data, { merge: true }) has committed
StoreAfterSet(docRef, data) == [store EXCEPT ![docRef] = data]

\* t.set(docRef, data, { merge: true }), the commit of the transaction and
\* the response after the await; FieldValue.serverTimestamp() is the commit
\* time, later than every earlier one
TxnCommit(s) ==
    LET r == req[s]
        data == CallbackData(r.doc, r.docRef[3], r.isCorrect, now)
    IN  /\ r.pc = "set"
        /\ CanCommit(r)
        /\ store' = StoreAfterSet(r.docRef, data)
        /\ version' = [version EXCEPT ![r.docRef] = @ + 1]
        /\ committed' = [committed EXCEPT ![r.docRef] =
                Append(@, [rid |-> s, isCorrect |-> r.isCorrect, ts |-> now])]
        /\ req' = [req EXCEPT ![s] = Settled(SuccessResponse)]
        /\ now' = now + 1
        /\ UNCHANGED <<vocabulary, sel, probe>>

\* the commit is refused because the document was written meanwhile:
\* runTransaction runs the callback again, or rejects and the catch branch
\* answers
TxnConflict(s) ==
    LET r == req[s]
    IN  /\ r.pc = "set"
        /\ ~CanCommit(r)
        /\ req' = [req EXCEPT ![s] =
                IF r.attempts < MaxAttempts
                THEN [pc |-> "get", docRef |-> r.docRef,
                      isCorrect |-> r.isCorrect, attempts |-> r.attempts + 1]
                ELSE Settled(CatchResponse)]
        /\ UNCHANGED <<vocabulary, store, version, now, committed, sel, probe>>

\* the storage layer fails the read or the commit: runTransaction rejects
\* and the catch branch answers
TxnFail(s) ==
    LET r == req[s]
    IN  /\ r.pc \in {"get", "set"}
        /\ req' = [req EXCEPT ![s] = Settled(CatchResponse)]
        /\ UNCHANGED <<vocabulary, store, version, now, committed, sel, probe>>

Init ==
    /\ vocabulary = SmallCatalog
    /\ store = [d \in DocRefs |-> NoDoc]
    /\ version = [d \in DocRefs |-> 0]
    /\ now = 0
    /\ req = [s \in Slots |-> IdleSlot]
    /\ committed = [d \in DocRefs |-> <<>>]
    /\ sel = [mode |-> "none"]
    /\ probe = [phase |-> "run", started |-> 0]

SubmitAny ==
    \E s \in Slots, p \in RequestParams, isCorrect \in BOOLEAN :
        Submit(s, p[1], p[3], isCorrect, p[2])

TxnGetAny == \E s \in Slots : TxnGet(s)

TxnCommitAny == \E s \in Slots : TxnCommit(s)

TxnConflictAny == \E s \in Slots : TxnConflict(s)

TxnFailAny == \E s \in Slots : TxnFail(s)

Next ==
    \/ SubmitAny
    \/ TxnGetAny
    \/ TxnCommitAny
    \/ TxnConflictAny
    \/ TxnFailAny

Spec == Init /\ [][Next]_vars

(***************************************************************************)
(* POST /getDailyWords.                                                    *)
(***************************************************************************)
TARGET_COUNT == 8

COOL_DOWN_HOURS == 20

\* distribution.weak and distribution.learning
DistributionWeak == 2

DistributionLearning == 2

advancesLevels == {"B1", "B2", "C1", "C2"}

\* String.prototype.toLowerCase on the topic strings of the model
ToLowerCase(str) ==
    CASE str = "Tech" -> "tech"
      [] str = "TECH" -> "tech"
      [] str = "Food" -> "food"
      [] str = "Greetings" -> "greetings"
      [] OTHER -> str

\* mutant: cool from exactly COOL_DOWN_HOURS on
isCoolInclusive(timestamp, at) ==
    IF timestamp = NoTime THEN TRUE
    ELSE (at - timestamp) >= COOL_DOWN_HOURS * 60

\* isCool(timestamp): diffHours > COOL_DOWN_HOURS, with time in minutes
isCool(timestamp, at) ==
    IF timestamp = NoTime THEN TRUE
    ELSE (at - timestamp) > COOL_DOWN_HOURS * 60

\* db.collection(`users/${userId}/user_words_${language}`).get()
userWordsSnapshot(userId, language) ==
    { store[d] : d \in {e \in DOMAIN store :
                           e[1] = userId /\ e[2] = language /\ store[e] # NoDoc} }

\* mutant: no word is ever found in the snapshot
MapHasNever(snapshot, word) == FALSE

\* userWordsMap.has(word) and userWordsMap.get(word)
MapHas(snapshot, word) == \E data \in snapshot : data.word = word

MapGet(snapshot, word) == CHOOSE data \in snapshot : data.word = word

\* categories[name] after the forEach over the snapshot: a status that names
\* no category is filed under learning
categories(snapshot, name) ==
    { data \in snapshot :
        \/ data.status = name
        \/ name = "learning" /\ data.status \notin Statuses }

\* { ...v, status: 'new', correct_streak: 0, wrong_count: 0 }
NewEntry(v) ==
    [word |-> v.word, level |-> v.level, tags |-> v.tags, status |-> "new",
     correct_streak |-> 0, wrong_count |-> 0, last_seen |-> NoTime]

MinOf(a, b) == IF a < b THEN a ELSE b

\* shuffle([...pool]).slice(0, n): the bags of min(n, length) entries of pool
TakeAny(pool, n) ==
    LET k == MinOf(IF n < 0 THEN 0 ELSE n, Cardinality(pool))
    IN  { SetToBag(picked) : picked \in {x \in SUBSET pool : Cardinality(x) = k} }

\* mutant: the final slice is missing
SliceBagNone(selected, n) == {selected}

\* selected.slice(0, n) of a bag whose entries are in shuffled order
SliceBag(selected, n) ==
    IF BagCardinality(selected) <= n THEN {selected}
    ELSE { kept \in SubBag(selected) : BagCardinality(kept) = n }

\* ---- topic mode ----
\* mutant: the topic filter is missing
topicWordsAll(topic) == { vocabulary[i] : i \in DOMAIN vocabulary }

topicWords(topic) ==
    { vocabulary[i] : i \in {j \in DOMAIN vocabulary : topic \in vocabulary[j].tags} }

topicNew(snapshot, topic) ==
    { NewEntry(w) : w \in {v \in topicWords(topic) : ~MapHas(snapshot, v.word)} }

TopicStored(snapshot, topic) ==
    { MapGet(snapshot, w.word) : w \in {v \in topicWords(topic) : MapHas(snapshot, v.word)} }

topicKnownFallback(snapshot, topic) ==
    { userData \in TopicStored(snapshot, topic) : userData.status = "known" }

topicReviewFallback(snapshot, topic, at) ==
    { userData \in TopicStored(snapshot, topic) :
        /\ userData.status # "known"
        /\ userData.status = "learning" /\ ~isCool(userData.last_seen, at) }

\* mutant: the review bucket takes the cool Learning records only
topicReviewLearningOnly(snapshot, topic, at) ==
    { userData \in TopicStored(snapshot, topic) :
        userData.status = "learning" /\ isCool(userData.last_seen, at) }

topicReview(snapshot, topic, at) ==
    { userData \in TopicStored(snapshot, topic) :
        /\ userData.status # "known"
        /\ ~(userData.status = "learning" /\ ~isCool(userData.last_seen, at)) }

\* mutant: the stored buckets are used in the opposite order
TopicCascadeReversed(first, buckets) ==
    LET Step(acc, pool) ==
            IF BagCardinality(acc) < TARGET_COUNT
            THEN { acc (+) more : more \in TakeAny(pool, TARGET_COUNT - BagCardinality(acc)) }
            ELSE {acc}
        after1 == Step(first, buckets[3])
        after2 == UNION { Step(acc, buckets[2]) : acc \in after1 }
    IN  UNION { Step(acc, buckets[1]) : acc \in after2 }

\* the entries pushed after the new ones, each bucket only while short
TopicCascade(first, buckets) ==
    LET Step(acc, pool) ==
            IF BagCardinality(acc) < TARGET_COUNT
            THEN { acc (+) more : more \in TakeAny(pool, TARGET_COUNT - BagCardinality(acc)) }
            ELSE {acc}
        after1 == Step(first, buckets[1])
        after2 == UNION { Step(acc, buckets[2]) : acc \in after1 }
    IN  UNION { Step(acc, buckets[3]) : acc \in after2 }

\* the words of the topic response
TopicSelected(snapshot, topic, at) ==
    UNION { SliceBag(selected, TARGET_COUNT) :
              selected \in TopicCascade(SetToBag(topicNew(snapshot, topic)),
                                        << topicReview(snapshot, topic, at),
                                           topicReviewFallback(snapshot, topic, at),
                                           topicKnownFallback(snapshot, topic) >>) }

\* mutant: the Learning records are not filtered by the cool-down
availableLearningAll(snapshot, at) == categories(snapshot, "learning")

\* ---- untargeted mode ----
availableLearning(snapshot, at) ==
    { w \in categories(snapshot, "learning") : isCool(w.last_seen, at) }

\* mutant: words that have a record are not removed from the new pool
newWordsPoolAll(snapshot) == { vocabulary[i] : i \in DOMAIN vocabulary }

newWordsPool(snapshot) ==
    { vocabulary[i] : i \in {j \in DOMAIN vocabulary : ~MapHas(snapshot, vocabulary[j].word)} }

hardWords(snapshot) == { w \in newWordsPool(snapshot) : w.level \in advancesLevels }

\* mutant: no preference for the advanced levels
filteredNewPoolNoBias(snapshot, neededNew) == newWordsPool(snapshot)

filteredNewPool(snapshot, neededNew) ==
    IF Cardinality(hardWords(snapshot)) >= neededNew THEN hardWords(snapshot)
    ELSE newWordsPool(snapshot)

\* mutant: the New entries are always drawn from the advanced words
pickedNewHardOnly(snapshot, selectedWords) ==
    TakeAny({ NewEntry(v) : v \in hardWords(snapshot) },
            TARGET_COUNT - BagCardinality(selectedWords))

\* pickedNew for the Weak and Learning entries already selected
pickedNew(snapshot, selectedWords) ==
    LET currentCount == BagCardinality(selectedWords)
        neededNew == IF TARGET_COUNT - currentCount < 0 THEN 0
                     ELSE TARGET_COUNT - currentCount
    IN  TakeAny({ NewEntry(v) : v \in filteredNewPool(snapshot, neededNew) }, neededNew)

\* mutant: no top-up from categories.known
KnownTopUpNone(snapshot, selectedWords) == {selectedWords}

\* the top-up from categories.known
KnownTopUp(snapshot, selectedWords) ==
    IF BagCardinality(selectedWords) < TARGET_COUNT
    THEN { selectedWords (+) more :
             more \in TakeAny(categories(snapshot, "known"),
                              TARGET_COUNT - BagCardinality(selectedWords)) }
    ELSE {selectedWords}

\* the words of the untargeted response
UntargetedSelected(snapshot, at) ==
    LET quota == { weak (+) learning :
                     weak \in TakeAny(categories(snapshot, "weak"), DistributionWeak),
                     learning \in TakeAny(availableLearning(snapshot, at),
                                          DistributionLearning) }
        withNew == UNION { { q (+) new : new \in pickedNew(snapshot, q) } : q \in quota }
    IN  UNION { KnownTopUp(snapshot, selectedWords) : selectedWords \in withNew }

\* the handler: one read of the collection, then the selection
GetDailyWords(userId, languageParam, topicParam) ==
    LET language == Lang(languageParam)
        snapshot == userWordsSnapshot(userId, language)
        topic == IF topicParam # "" THEN ToLowerCase(topicParam) ELSE ""
    IN  IF userId = ""
        THEN sel' = [mode |-> "error", code |-> 400]
        ELSE IF topic # ""
        THEN \E words \in TopicSelected(snapshot, topic, now) :
                sel' = [mode |-> "topic", userId |-> userId, language |-> language,
                        topicParam |-> topicParam, at |-> now, words |-> words,
                        review |-> topicReview(snapshot, topic, now),
                        reviewFallback |-> topicReviewFallback(snapshot, topic, now),
                        learning |-> {}]
        ELSE \E words \in UntargetedSelected(snapshot, now) :
                sel' = [mode |-> "untargeted", userId |-> userId, language |-> language,
                        topicParam |-> topicParam, at |-> now, words |-> words,
                        review |-> {}, reviewFallback |-> {},
                        learning |-> availableLearning(snapshot, now)]

(***************************************************************************)
(* SpecSelect: one /getDailyWords request on a catalog and a progress      *)
(* snapshot drawn at the start.  The catalogs have CatalogSize words with  *)
(* unique keys (the data model's catalog invariant); the snapshot gives    *)
(* each word no record or a record the mastery machine produces, with the  *)
(* Learning records last seen 19 h, 20 h or 20 h 1 min ago.  Snapshots are *)
(* drawn up to the order of the catalog words.                             *)
(***************************************************************************)
WordNames ==
    << "w01", "w02", "w03", "w04", "w05", "w06", "w07", "w08", "w09", "w10",
       "w11", "w12" >>

\* every word is tagged tech, the odd ones have an advanced level
TechCatalog ==
    [ i \in 1..CatalogSize |->
        [word |-> WordNames[i],
         level |-> IF i % 2 = 1 THEN "B2" ELSE "A2",
         tags |-> IF i % 2 = 1 THEN {"tech"} ELSE {"tech", "food"}] ]

\* a third of the words tagged tech, a third Tech, a third food, and the
\* advanced levels on the last words
MixedCatalog ==
    [ i \in 1..CatalogSize |->
        [word |-> WordNames[i],
         level |-> IF i > 6 THEN "C1" ELSE IF i % 2 = 0 THEN "B1" ELSE "A1",
         tags |-> IF i % 3 = 0 THEN {"tech"}
                  ELSE IF i % 3 = 1 THEN {"Tech", "food"} ELSE {"food"}] ]

\* all but the first two words have an advanced level
HardCatalog ==
    [ i \in 1..CatalogSize |->
        [word |-> WordNames[i],
         level |-> IF i <= 2 THEN "A1" ELSE IF i % 2 = 0 THEN "B1" ELSE "C2",
         tags |-> IF i % 2 = 0 THEN {"tech", "food"} ELSE {"food"}] ]

Catalogs == {TechCatalog, MixedCatalog, HardCatalog, SmallCatalog}

SelectTime == 2 * 1201

Kinds == << "absent", "weak", "cool", "edge", "hot", "known" >>

\* a stored record of the given kind for a catalog entry or a bare word
KindDoc(kind, word) ==
    LET base == MergeVocab(FreshData(word))
    IN  CASE kind = "weak" ->
               [base EXCEPT !.status = "weak", !.wrong_count = 1,
                            !.last_seen = SelectTime - 1140]
          [] kind = "cool" ->
               [base EXCEPT !.status = "learning", !.correct_streak = 1,
                            !.last_seen = SelectTime - 1201]
          [] kind = "edge" ->
               [base EXCEPT !.status = "learning", !.correct_streak = 2,
                            !.last_seen = SelectTime - 1200]
          [] kind = "hot" ->
               [base EXCEPT !.status = "learning", !.correct_streak = 1,
                            !.wrong_count = 1, !.last_seen = SelectTime - 1140]
          [] kind = "known" ->
               [base EXCEPT !.status = "known", !.correct_streak = 3,
                            !.last_seen = SelectTime - 1201]
          [] OTHER -> NoDoc

\* the kind of the i-th catalog word under the cut points c1 <= ... <= c5
KindAt(cuts, i) == Kinds[1 + Cardinality({j \in 1..5 : cuts[j] < i})]

SortedCuts(n) ==
    { c \in [1..5 -> 0..n] : \A j \in 1..4 : c[j] <= c[j + 1] }

SelectRefs(catalog) ==
    { <<"u1", "en", catalog[i].word>> : i \in DOMAIN catalog }
        \cup { <<"u1", "en", "zzz">>, <<"u2", "en", "w01">>, <<"u1", "ru", "w02">> }

InitSelect ==
    /\ vocabulary \in Catalogs
    /\ now = SelectTime
    /\ \E cuts \in SortedCuts(Len(vocabulary)),
          extra \in {"absent", "weak", "cool", "known"} :
            store = [ d \in SelectRefs(vocabulary) |->
                        IF d[1] # "u1" \/ d[2] # "en" THEN KindDoc("weak", d[3])
                        ELSE IF d[3] = "zzz" THEN KindDoc(extra, "zzz")
                        ELSE KindDoc(KindAt(cuts,
                                 CHOOSE i \in DOMAIN vocabulary :
                                     vocabulary[i].word = d[3]), d[3]) ]
    /\ version = <<>>
    /\ req = <<>>
    /\ committed = <<>>
    /\ sel = [mode |-> "none"]
    /\ probe = [phase |-> "select"]

SelectUntargeted ==
    /\ sel.mode = "none"
    /\ GetDailyWords("u1", "en", "")
    /\ UNCHANGED <<vocabulary, store, version, now, req, committed, probe>>

SelectTopic ==
    /\ sel.mode = "none"
    /\ \E topicParam \in {"tech", "TECH", "food"} : GetDailyWords("u1", "", topicParam)
    /\ UNCHANGED <<vocabulary, store, version, now, req, committed, probe>>

SelectNoUser ==
    /\ sel.mode = "none"
    /\ GetDailyWords("", "en", "tech")
    /\ UNCHANGED <<vocabulary, store, version, now, req, committed, probe>>

NextSelect == SelectUntargeted \/ SelectTopic \/ SelectNoUser

SpecSelect == InitSelect /\ [][NextSelect]_vars

(***************************************************************************)
(* SpecSession: requests handled one after the other on the scenario       *)
(* catalog, from empty collections: /updateWordStatus requests (each run   *)
(* to its commit before the next request starts) and /getDailyWords        *)
(* requests of either mode.  A response is looked at before the next       *)
(* answer is submitted.                                                    *)
(***************************************************************************)
\* one /updateWordStatus request from the parameter check to the response,
\* with no other request in between
SessionAnswer(userId, language, word, isCorrect) ==
    LET docRef == <<userId, Lang(language), word>>
        data == CallbackData(store[docRef], word, isCorrect, now)
    IN  /\ userId # "" /\ word # ""
        /\ now < MaxAnswers
        /\ store' = StoreAfterSet(docRef, data)
        /\ version' = [version EXCEPT ![docRef] = @ + 1]
        /\ committed' = [committed EXCEPT ![docRef] =
                Append(@, [rid |-> 0, isCorrect |-> isCorrect, ts |-> now])]
        /\ now' = now + 1
        /\ sel' = [mode |-> "none"]
        /\ UNCHANGED <<vocabulary, req, probe>>

SessionAnswerAny ==
    \E p \in RequestParams, isCorrect \in BOOLEAN :
        SessionAnswer(p[1], p[2], p[3], isCorrect)

\* the (userId, language, topic) parameters of the /getDailyWords requests
SelectParams ==
    { <<"u1", "", "">>, <<"u1", "en", "TECH">>, <<"u1", "en", "Greetings">>,
      <<"u2", "en", "">>, <<"u1", "ru", "">> }

SessionSelect ==
    /\ \E p \in SelectParams : GetDailyWords(p[1], p[2], p[3])
    /\ UNCHANGED <<vocabulary, store, version, now, req, committed, probe>>

NextSession == SessionAnswerAny \/ SessionSelect

SpecSession == Init /\ [][NextSession]_vars

(***************************************************************************)
(* SpecMastery: the transition as a pure function, applied once to a       *)
(* record drawn from every status and every counter value up to MaxCount.  *)
(***************************************************************************)
ProbeRecords ==
    { [word |-> "w1", correct_streak |-> cs, wrong_count |-> wc, status |-> st,
       last_seen |-> NoTime, level |-> "", tags |-> {}] :
          cs \in 0..MaxCount, wc \in 0..MaxCount, st \in Statuses }

InitMastery ==
    /\ vocabulary = <<>>
    /\ store = <<>>
    /\ version = <<>>
    /\ now = 0
    /\ req = <<>>
    /\ committed = <<>>
    /\ sel = [mode |-> "none"]
    /\ \E r \in ProbeRecords : probe = [phase |-> "in", before |-> r]

Answer(isCorrect) ==
    /\ probe.phase = "in"
    /\ probe' = [phase |-> "out", before |-> probe.before, isCorrect |-> isCorrect,
                 after |-> ApplyAnswer(probe.before, isCorrect, now)]
    /\ UNCHANGED <<vocabulary, store, version, now, req, committed, sel>>

AnswerCorrect == Answer(TRUE)

AnswerWrong == Answer(FALSE)

NextMastery == AnswerCorrect \/ AnswerWrong

SpecMastery == InitMastery /\ [][NextMastery]_vars

(***************************************************************************)
(* Properties.                                                             *)
(***************************************************************************)
\* the record obtained by applying the committed answers of a document one
\* at a time, in commit order, starting from no document
RECURSIVE Replay(_, _)
Replay(log, word) ==
    IF log = <<>> THEN NoDoc
    ELSE LET last == log[Len(log)]
         IN  CallbackData(Replay(SubSeq(log, 1, Len(log) - 1), word), word,
                          last.isCorrect, last.ts)

WrongAnswers(log) == Cardinality({i \in DOMAIN log : ~log[i].isCorrect})

\* C1: whatever the interleaving of the requests for one document, the
\* stored record is the result of applying the mastery transition to the
\* committed answers one at a time in commit order, and its wrong_count is
\* the number of committed wrong answers: no committed update is lost.
C1_SerialOrder ==
    \A d \in DOMAIN committed :
        /\ store[d] = Replay(committed[d], d[3])
        /\ committed[d] # <<>> => store[d].wrong_count = WrongAnswers(committed[d])

\* the request of slot s has exactly one committed answer, in log d
CommittedIn(s, d) ==
    Cardinality({i \in DOMAIN committed[d] : committed[d][i].rid = s}) = 1

\* two wrong answers for one document were in flight together: the first has
\* committed, the second was refused, ran its callback again on the record
\* the first one wrote, and is about to commit
C1_Witness ==
    \E s1, s2 \in Slots :
        /\ s1 # s2
        /\ req[s1].pc = "done" /\ req[s1].res = SuccessResponse
        /\ req[s2].pc = "set" /\ req[s2].attempts = 2 /\ ~req[s2].isCorrect
        /\ CommittedIn(s1, req[s2].docRef)
        /\ req[s2].doc = store[req[s2].docRef]
        /\ req[s2].doc.wrong_count = 1

\* C2: a wrong answer makes any record weak, resets its streak and adds one
\* to its wrong count.
C2_WrongAnswer ==
    (probe.phase = "out" /\ ~probe.isCorrect) =>
        /\ probe.after.status = "weak"
        /\ probe.after.correct_streak = 0
        /\ probe.after.wrong_count = probe.before.wrong_count + 1

C2_Witness ==
    /\ probe.phase = "out" /\ ~probe.isCorrect
    /\ probe.before.status = "known" /\ probe.before.correct_streak = 3
    /\ probe.after.status = "weak"

\* C3: a correct answer adds one to the streak and leaves the wrong count;
\* the status is known from a streak of 3, else learning if it was new or
\* weak, else what it was.
C3_CorrectAnswer ==
    (probe.phase = "out" /\ probe.isCorrect) =>
        /\ probe.after.correct_streak = probe.before.correct_streak + 1
        /\ probe.after.wrong_count = probe.before.wrong_count
        /\ probe.after.status =
              IF probe.after.correct_streak >= 3 THEN "known"
              ELSE IF probe.before.status \in {"new", "weak"} THEN "learning"
              ELSE probe.before.status

C3_Witness ==
    /\ probe.phase = "out" /\ probe.isCorrect
    /\ probe.before.correct_streak = 2 /\ probe.before.status = "learning"
    /\ probe.after.status = "known" /\ probe.after.correct_streak = 3

\* C4: no stored record has status new.
C4_NoNewStored ==
    \A d \in DOMAIN store : store[d] # NoDoc => store[d].status \in {"learning", "weak", "known"}

C4_Witness ==
    \E d \in DOMAIN store :
        /\ store[d] # NoDoc
        /\ Len(committed[d]) = 1 /\ committed[d][1].isCorrect
        /\ store[d].status = "learning"

\* the number of entries of a response for one word
EntriesOf(words, word) ==
    BagCardinality([e \in {x \in BagToSet(words) : x.word = word} |-> words[e]])

Selected == sel.mode \in {"topic", "untargeted"}

SelSnapshot == userWordsSnapshot(sel.userId, sel.language)

\* C5: a response never holds two entries for the same word.
C5_NoDuplicates ==
    Selected => \A e \in BagToSet(sel.words) : EntriesOf(sel.words, e.word) = 1

\* an untargeted response that is short of the target and mixes stored and
\* new entries
C5_Witness ==
    /\ sel.mode = "untargeted"
    /\ BagCardinality(sel.words) < 8
    /\ \E e1, e2 \in BagToSet(sel.words) : e1.status = "new" /\ e2.status = "weak"

\* the words the buckets of a request hold: the catalog words without a
\* record and the Weak, cool Learning and Known records (untargeted), or the
\* catalog words carrying the topic (topic mode)
BucketUnion ==
    IF sel.mode = "topic"
    THEN topicWords(ToLowerCase(sel.topicParam))
    ELSE newWordsPool(SelSnapshot)
           \cup categories(SelSnapshot, "weak")
           \cup availableLearning(SelSnapshot, sel.at)
           \cup categories(SelSnapshot, "known")

\* C6 as claimed: the response has 8 entries whenever the buckets hold at
\* least 8 words.
C6_FullWheneverAvailable ==
    (Selected /\ Cardinality(BucketUnion) >= 8) => BagCardinality(sel.words) = 8

\* what the untargeted mode can draw on: Weak and cool Learning records up
\* to their quota of 2 each, every new word and every Known record
UntargetedSupply ==
    MinOf(2, Cardinality(categories(SelSnapshot, "weak")))
      + MinOf(2, Cardinality(availableLearning(SelSnapshot, sel.at)))
      + Cardinality(newWordsPool(SelSnapshot))
      + Cardinality(categories(SelSnapshot, "known"))

\* C6 as amended: a topic response has 8 entries whenever at least 8 catalog
\* words carry the topic; an untargeted response has 8 entries whenever the
\* Weak records (at most 2 counted), the cool Learning records (at most 2
\* counted), the new words and the Known records number at least 8.
C6_FullWithinQuota ==
    /\ (sel.mode = "topic" /\ Cardinality(BucketUnion) >= 8)
          => BagCardinality(sel.words) = 8
    /\ (sel.mode = "untargeted" /\ UntargetedSupply >= 8)
          => BagCardinality(sel.words) = 8

\* an untargeted response filled to 8 with the help of the Known top-up
C6_Witness ==
    /\ sel.mode = "untargeted"
    /\ UntargetedSupply >= 8
    /\ BagCardinality(sel.words) = 8
    /\ \E e \in BagToSet(sel.words) : e.status = "known"

\* C7: a response has at most 8 entries.
C7_AtMostTarget ==
    Selected => BagCardinality(sel.words) <= 8

\* a topic response cut to 8 although more than 8 new words carry the topic
C7_Witness ==
    /\ sel.mode = "topic"
    /\ Cardinality(topicNew(SelSnapshot, ToLowerCase(sel.topicParam))) > 8
    /\ BagCardinality(sel.words) = 8

\* C8: every entry of a topic response is a catalog word with a tag equal to
\* the requested topic ignoring case.
C8_TopicTagged ==
    sel.mode = "topic" =>
        \A e \in BagToSet(sel.words) :
            /\ VocabItem(e.word) # NoDoc
            /\ \E tag \in VocabItem(e.word).tags :
                   ToLowerCase(tag) = ToLowerCase(sel.topicParam)

C8_Witness ==
    /\ sel.mode = "topic"
    /\ sel.topicParam = "TECH"
    /\ \E e1, e2 \in BagToSet(sel.words) : e1.status = "new" /\ e2.status = "weak"

\* last seen strictly more than 20 hours (1200 minutes) before the request
SeenLongAgo(data) == data.last_seen = NoTime \/ sel.at - data.last_seen > 1200

LearningRecords == { data \in SelSnapshot : data.status = "learning" }

\* C9: a Learning record is eligible for review exactly when it was last
\* seen strictly more than 20 hours before the request: in the untargeted
\* mode it is among the available Learning words, and in topic mode a record
\* of the topic is in the review bucket, exactly then (and in the review
\* fallback otherwise).
C9_CoolDown ==
    /\ sel.mode = "untargeted" =>
          \A data \in LearningRecords : data \in sel.learning <=> SeenLongAgo(data)
    /\ sel.mode = "topic" =>
          \A data \in LearningRecords :
              ToLowerCase(sel.topicParam) \in data.tags =>
                  /\ data \in sel.review <=> SeenLongAgo(data)
                  /\ data \in sel.reviewFallback <=> ~SeenLongAgo(data)

\* records seen 20 h 1 min, exactly 20 h and 19 h ago: only the first is
\* available
C9_Witness ==
    /\ sel.mode = "untargeted"
    /\ \E a, b, c \in LearningRecords :
          /\ sel.at - a.last_seen = 1201 /\ a \in sel.learning
          /\ sel.at - b.last_seen = 1200 /\ b \notin sel.learning
          /\ sel.at - c.last_seen = 1140 /\ c \notin sel.learning

\* the request of slot s has a committed answer: exactly one, in one log
Committed(s) ==
    Cardinality({d \in DOMAIN committed : CommittedIn(s, d)}) = 1

InNoLog(s) ==
    \A d \in DOMAIN committed : \A i \in DOMAIN committed[d] : committed[d][i].rid # s

\* C10: a request answers success only once its transaction has committed;
\* a request whose transaction failed answers with a failure, none of its
\* answer is in the store, and the step in which it fails writes nothing.
C10_FailureIsExplicit ==
    /\ [](\A s \in Slots : req[s].pc = "done" =>
            /\ req[s].res.success => Committed(s)
            /\ ~Committed(s) => (~req[s].res.success /\ InNoLog(s)))
    /\ [][\A s \in Slots :
            (req[s].pc \in {"get", "set"} /\ req'[s].pc = "done"
                /\ req'[s].res # SuccessResponse)
              => (store' = store /\ version' = version)]_vars

\* a request failed and answered 500 while the record of some document,
\* written by another request, stands
C10_Witness ==
    \E s \in Slots :
        /\ req[s].pc = "done"
        /\ req[s].res = CatchResponse
        /\ InNoLog(s)
        /\ \E d \in DOMAIN store : store[d] # NoDoc

\* C11: every entry of a response, in either mode, is a word of the catalog.
C11_OnlyCatalogWords ==
    Selected => \A e \in BagToSet(sel.words) : VocabItem(e.word) # NoDoc

\* C12: a step that changes the record of a document is the commit of a
\* request for exactly that document (same user, language and word); it
\* leaves the record, the version and the answer log of every other document
\* as they were, also while requests for other documents are in flight; and
\* the record of each document is the replay of the answers committed for
\* that document alone.
C12_OtherKeysUntouched ==
    /\ [][\A d \in DOMAIN store :
            store'[d] # store[d] =>
                /\ \E s \in Slots :
                      /\ req[s].pc = "set" /\ req[s].docRef = d
                      /\ req'[s] = Settled(SuccessResponse)
                /\ \A e \in DOMAIN store \ {d} :
                      /\ store'[e] = store[e]
                      /\ version'[e] = version[e]
                      /\ committed'[e] = committed[e]]_vars
    /\ [](\A d \in DOMAIN store : store[d] = Replay(committed[d], d[3]))

\* a request has committed its answer for one document while a request for
\* the same word of another user, whose record exists, is between its read
\* and its commit; that record is still the one the second request read
C12_Witness ==
    \E s1, s2 \in Slots, d1 \in DOMAIN store :
        /\ s1 > s2
        /\ req[s1].pc = "done" /\ CommittedIn(s1, d1)
        /\ req[s2].pc = "set" /\ req[s2].docRef # d1
        /\ req[s2].docRef[3] = d1[3]
        /\ req[s2].doc # NoDoc
        /\ store[req[s2].docRef] = req[s2].doc
        /\ CanCommit(req[s2])

\* the catalog entries with a tag equal to the requested topic ignoring case
TagMatchesIgnoringCase ==
    { vocabulary[i] : i \in { j \in DOMAIN vocabulary :
        \E tag \in vocabulary[j].tags :
            ToLowerCase(tag) = ToLowerCase(sel.topicParam) } }

\* C13: in topic mode the candidates are the catalog entries with a tag equal
\* to the topic ignoring the case of both: when fewer than targetCount of
\* them exist, every one of them is in the response.
C13_TagCaseIgnored ==
    (sel.mode = "topic" /\ Cardinality(TagMatchesIgnoringCase) < TARGET_COUNT) =>
        \A v \in TagMatchesIgnoringCase :
            \E e \in BagToSet(sel.words) : e.word = v.word

\* the stored records of the requesting user whose word is a word of the topic
TopicRecords ==
    { data \in SelSnapshot : ToLowerCase(sel.topicParam) \in data.tags }

\* C14 as stated: a stored topic record is in the Review bucket exactly when
\* it is Learning and cool.
C14_ReviewIsCoolLearning ==
    sel.mode = "topic" =>
        \A data \in TopicRecords :
            data \in sel.review <=> (data.status = "learning" /\ SeenLongAgo(data))

\* C14: a stored topic record is in the Review bucket exactly when it is
\* neither Known nor a Learning record that is not cool, so a Weak record is
\* in Review whatever its age; a Learning record that is not cool is in
\* ReviewFallback and nowhere else, a Known record in KnownFallback and
\* nowhere else.
C14_ReviewBucket ==
    sel.mode = "topic" =>
        LET knownFallback == topicKnownFallback(SelSnapshot, ToLowerCase(sel.topicParam))
        IN  \A data \in TopicRecords :
                /\ data \in sel.review <=>
                      \/ data.status = "weak"
                      \/ data.status = "learning" /\ SeenLongAgo(data)
                /\ data \in sel.reviewFallback <=>
                      (data.status = "learning" /\ ~SeenLongAgo(data))
                /\ data \in knownFallback <=> data.status = "known"

\* a topic response whose Review bucket holds a Weak record seen 19 hours
\* ago and a cool Learning record, with a Learning record that is not cool
\* in ReviewFallback, all three returned
C14_Witness ==
    /\ sel.mode = "topic"
    /\ \E a, b, c \in TopicRecords :
          /\ a.status = "weak" /\ ~SeenLongAgo(a) /\ a \in sel.review
          /\ b.status = "learning" /\ SeenLongAgo(b) /\ b \in sel.review
          /\ c.status = "learning" /\ ~SeenLongAgo(c) /\ c \in sel.reviewFallback
          /\ {a, b, c} \subseteq BagToSet(sel.words)

\* the four buckets of the topic request, in priority order: the New entries
\* of the topic words without a record, Review, ReviewFallback and the Known
\* records of the topic
TopicBuckets ==
    << { NewEntry(vocabulary[i]) : i \in { j \in DOMAIN vocabulary :
            /\ ToLowerCase(sel.topicParam) \in vocabulary[j].tags
            /\ \A data \in SelSnapshot : data.word # vocabulary[j].word } },
       sel.review,
       sel.reviewFallback,
       { data \in TopicRecords : data.status = "known" } >>

\* C15: in topic mode every entry of the response belongs to one of the four
\* buckets, and an entry of a bucket is in the response only if every entry
\* of every bucket of higher priority (New, Review, ReviewFallback,
\* KnownFallback in this order) is in it too; when the New bucket alone has
\* more than targetCount entries the response is targetCount New entries.
C15_StrictPriority ==
    sel.mode = "topic" =>
        LET buckets == TopicBuckets
            words == BagToSet(sel.words)
        IN  /\ \A e \in words : \E k \in 1..4 :
                  /\ e \in buckets[k]
                  /\ \A h \in 1..(k - 1) : buckets[h] \subseteq words
            /\ Cardinality(buckets[1]) > TARGET_COUNT =>
                  /\ BagCardinality(sel.words) = TARGET_COUNT
                  /\ words \subseteq buckets[1]

\* a topic response with all New and all Review entries and a part of
\* ReviewFallback only
C15_Witness ==
    /\ sel.mode = "topic"
    /\ TopicBuckets[1] # {} /\ TopicBuckets[2] # {}
    /\ \E a, b \in TopicBuckets[3] :
          a \in BagToSet(sel.words) /\ b \notin BagToSet(sel.words)

\* the number of entries of the response with the given status
SelectedWith(status) ==
    BagCardinality([e \in {x \in BagToSet(sel.words) : x.status = status} |-> sel.words[e]])

WeakRecords == { data \in SelSnapshot : data.status = "weak" }

CoolLearningRecords == { data \in LearningRecords : SeenLongAgo(data) }

\* C16: an untargeted response has exactly min(2, number of Weak records)
\* Weak entries and exactly min(2, number of cool Learning records) Learning
\* entries, and no Learning entry last seen within the last 20 hours.
C16_WeakLearningQuota ==
    sel.mode = "untargeted" =>
        /\ SelectedWith("weak") = MinOf(2, Cardinality(WeakRecords))
        /\ SelectedWith("learning") = MinOf(2, Cardinality(CoolLearningRecords))
        /\ \A e \in BagToSet(sel.words) : e.status = "learning" => SeenLongAgo(e)

\* an untargeted response with two of three Weak records and the only cool
\* Learning record, while Learning records that are not cool exist
C16_Witness ==
    /\ sel.mode = "untargeted"
    /\ Cardinality(WeakRecords) = 3 /\ SelectedWith("weak") = 2
    /\ Cardinality(CoolLearningRecords) = 1 /\ SelectedWith("learning") = 1
    /\ Cardinality(LearningRecords) >= 3

\* the catalog words without a record of the requesting user, and those of
\* them with an advanced level
NewCatalogWords ==
    { vocabulary[i] : i \in { j \in DOMAIN vocabulary :
        \A data \in SelSnapshot : data.word # vocabulary[j].word } }

HardNewCatalogWords ==
    { v \in NewCatalogWords : v.level \in {"B1", "B2", "C1", "C2"} }

\* what is missing to targetCount after the Weak and Learning entries
NeededNew == TARGET_COUNT - SelectedWith("weak") - SelectedWith("learning")

\* C17: in untargeted mode, with n = targetCount minus the Weak and Learning
\* entries picked: if at least n New catalog words have a level in
\* {B1, B2, C1, C2}, every New entry of the response has such a level;
\* otherwise the New entries are min(n, size of the New pool) words of the
\* whole New pool.
C17_HardWordsBias ==
    sel.mode = "untargeted" =>
        LET news == { e \in BagToSet(sel.words) : e.status = "new" }
            pool == NewCatalogWords
        IN  IF Cardinality(HardNewCatalogWords) >= NeededNew
            THEN \A e \in news : e.level \in {"B1", "B2", "C1", "C2"}
            ELSE /\ SelectedWith("new") = MinOf(NeededNew, Cardinality(pool))
                 /\ \A e \in news : \E v \in pool : e.word = v.word

\* enough advanced New words for what is needed: New entries are returned
\* while New words of a lower level are left out
C17_Witness ==
    /\ sel.mode = "untargeted"
    /\ Cardinality(HardNewCatalogWords) >= NeededNew
    /\ SelectedWith("new") = NeededNew
    /\ NewCatalogWords # HardNewCatalogWords

\* C18: an untargeted response holds a Known entry only when every New
\* catalog word is in it, that is only when the Weak quota, the cool
\* Learning quota and the whole New pool together are fewer than targetCount
\* words.
C18_KnownOnlyTopUp ==
    (sel.mode = "untargeted" /\ SelectedWith("known") > 0) =>
        /\ \A v \in NewCatalogWords :
              \E e \in BagToSet(sel.words) : e.word = v.word /\ e.status = "new"
        /\ MinOf(2, Cardinality(WeakRecords)) + MinOf(2, Cardinality(CoolLearningRecords))
              + Cardinality(NewCatalogWords) < TARGET_COUNT

\* an untargeted response with Weak, Learning and New entries, topped up
\* with a part of the Known records
C18_Witness ==
    /\ sel.mode = "untargeted"
    /\ SelectedWith("known") > 0
    /\ SelectedWith("known") < Cardinality({ data \in SelSnapshot : data.status = "known" })
    /\ SelectedWith("new") > 0 /\ SelectedWith("weak") > 0 /\ SelectedWith("learning") > 0

\* the length of the run of correct answers that ends the log
TrailingCorrect(log) ==
    Cardinality({ i \in DOMAIN log : \A j \in i..Len(log) : log[j].isCorrect })

\* C19: after any non-empty sequence of committed answers for a document
\* that started without a record, correct_streak is the length of the
\* trailing run of correct answers, wrong_count the number of wrong answers,
\* and the status is weak exactly when the last answer was wrong (then with
\* streak 0 and at least one wrong answer), learning exactly when the
\* trailing run has length 1 or 2, and known exactly when it has length 3 or
\* more.
C19_RecordFromAnswers ==
    \A d \in DOMAIN committed :
        committed[d] # <<>> =>
            LET log == committed[d]
                data == store[d]
                run == TrailingCorrect(log)
            IN  /\ data.correct_streak = run
                /\ data.wrong_count = WrongAnswers(log)
                /\ data.status = "weak" <=> ~log[Len(log)].isCorrect
                /\ data.status = "weak" =>
                      (data.correct_streak = 0 /\ data.wrong_count >= 1)
                /\ data.status = "learning" <=> run \in {1, 2}
                /\ data.status = "known" <=> run >= 3
                /\ data.status = "known" => data.correct_streak >= 3

\* a wrong answer followed by three correct ones: known, streak 3, one wrong
C19_Witness ==
    \E d \in DOMAIN committed :
        /\ Len(committed[d]) = 4
        /\ ~committed[d][1].isCorrect
        /\ \A i \in 2..4 : committed[d][i].isCorrect
        /\ store[d].status = "known" /\ store[d].correct_streak = 3
        /\ store[d].wrong_count = 1

\* the log of the answers committed for a word by the user and in the
\* language of the selection (empty when no request can address the word)
AnswersFor(word) ==
    LET d == <<sel.userId, sel.language, word>>
    IN  IF d \in DOMAIN committed THEN committed[d] ELSE <<>>

\* C20: once an answer for a catalog word has committed for a user and a
\* language, a later selection for that user and language, in either mode,
\* has no New entry for that word: the word is returned as its stored record
\* or not at all.
C20_NoNewAfterCommit ==
    Selected =>
        \A e \in BagToSet(sel.words) :
            AnswersFor(e.word) # <<>> =>
                /\ e.status # "new"
                /\ e = store[<<sel.userId, sel.language, e.word>>]

\* a topic selection made after a wrong answer for a catalog word returns
\* the word as its stored Weak record, while another user has no record of it
C20_Witness ==
    /\ sel.mode = "topic"
    /\ \E e \in BagToSet(sel.words) :
          /\ VocabItem(e.word) # NoDoc
          /\ AnswersFor(e.word) # <<>>
          /\ e.status = "weak" /\ e.wrong_count = 1
    /\ \E d \in DOMAIN store : d[1] # sel.userId /\ store[d] = NoDoc

====
